---------------------------- MODULE Spec2Model ----------------------------
(***************************************************************************)
(* State-machine model of smc-fan-controller.py: the startup sequence of   *)
(* __main__, check_preset_full, main_loop, and quit_and_reset_preset       *)
(* running both as the handler of SIGINT/SIGTERM (nested on the Python     *)
(* stack when a signal arrives while an earlier handler is still running)  *)
(* and as the call made by the `except Exception` branch.                  *)
(*                                                                         *)
(* ipmitool is the environment: every command either fails (ipmi_cmd       *)
(* returns False) or succeeds with a value chosen from a small set.        *)
(*                                                                         *)
(* Spec runs the program as shipped, SpecConfig runs it with an edited     *)
(* TEMPERATURE_CURVE, and SpecEval runs generate_curve_coefficients and    *)
(* target_fan_speed alone on small lists of control points.                *)
(***************************************************************************)
EXTENDS Integers, Sequences, FiniteSets, TLC

VARIABLES
    pc,            \* position of the main program (frames below run on top of it)
    exitCode,      \* process exit status once pc = "exited", NoCode before
    handlers,      \* signals whose handler is quit_and_reset_preset
    EXIT_PRESET,   \* module global EXIT_PRESET (Unset before line 213)
    temp_curve,    \* module global temp_curve (<<>> before line 216)
    preset,        \* local `preset` of check_preset_full (Unset outside it)
    temps,         \* local `temps` of main_loop once it is a list (<<>> outside main_loop)
    target_speed,  \* local `target_speed` of main_loop (Unset outside main_loop)
    zone_i,        \* next index into zip(FAN_ZONES, FAN_ZONE_OFFSETS) of the for loop
    frames,        \* stack of quit_and_reset_preset activations, top is last
    lastCmd,       \* the ipmitool command issued most recently
    cmdTick,       \* flips every time an ipmitool command is issued
    nRestore,      \* number of set_fan_preset(EXIT_PRESET) calls issued by quit_and_reset_preset
    restoreFailed, \* some set_fan_preset(EXIT_PRESET) call returned False
    loopError,     \* an exception was raised inside the try block
    nSignals,      \* number of signals delivered to a Python-level handler
    startupPreset, \* what get_fan_preset() returned on line 213
    firstPreset,   \* what the first get_fan_preset() that did not fail returned
    badRead,       \* a temperature read failed or came back empty
    writeFailed,   \* a set_zone_speed call returned False
    forceFailed,   \* the set_fan_preset(FAN_PRESET_FULL) of check_preset_full returned False
    wrote,         \* set_fan_preset(FAN_PRESET_FULL) or a set_zone_speed has been issued
    curve_points   \* the configured control points (TEMPERATURE_CURVE as edited by the user)

vars == <<pc, exitCode, handlers, EXIT_PRESET, temp_curve, preset, temps,
          target_speed, zone_i, frames, lastCmd, cmdTick, nRestore,
          restoreFailed, loopError, nSignals, startupPreset, firstPreset, badRead,
          writeFailed, forceFailed, wrote, curve_points>>

---------------------------------------------------------------------------
(* Bounds of the model *)

\* signals delivered to the installed handler in one run
MaxSignals == 2
\* sensors returned by one temperature read
MaxSensors == 2

\* temperatures a sensor may report
TempValues == {-5, 0, 30, 50, 85, 95}

---------------------------------------------------------------------------
(* Program constants *)

FAN_ZONES == <<0, 1>>
FAN_ZONE_OFFSETS == <<0, -30>>
TEMPERATURE_CURVE == <<<<0, 0>>, <<40, 20>>, <<60, 50>>, <<80, 80>>, <<90, 100>>>>

FAN_PRESET_STANDARD == 0
FAN_PRESET_FULL == 1
FAN_PRESET_OPTIMAL == 2
FAN_PRESET_HEAVYIO == 4
FAN_PRESETS_STR == {FAN_PRESET_STANDARD, FAN_PRESET_FULL, FAN_PRESET_OPTIMAL, FAN_PRESET_HEAVYIO}

SIGINT == 2
SIGTERM == 15
Signals == {SIGINT, SIGTERM}

\* Python's False as returned by the gateway wrappers on failure; the code
\* tells it from every preset with `is False`
PyFalse == -1
\* a global or local that has not been assigned yet
Unset == -999
\* exit status before the process has exited
NoCode == -1

---------------------------------------------------------------------------
(* Pure functions *)

\* max(temps) of a non-empty list
RECURSIVE MaxOf(_)
MaxOf(s) ==
    IF Len(s) = 1 THEN s[1]
    ELSE LET m == MaxOf(Tail(s)) IN IF s[1] >= m THEN s[1] ELSE m

\* sorted(input_coords, key=lambda x: x[0]): stable insertion by temperature
RECURSIVE InsertCoord(_, _)
InsertCoord(c, s) ==
    IF s = <<>> THEN <<c>>
    ELSE IF c[1] < s[1][1] THEN <<c>> \o s
    ELSE <<s[1]>> \o InsertCoord(c, Tail(s))

RECURSIVE SortCoords(_)
SortCoords(s) ==
    IF s = <<>> THEN <<>>
    ELSE LET n == Len(s) IN InsertCoord(s[n], SortCoords(SubSeq(s, 1, n - 1)))

---------------------------------------------------------------------------
(* Python floats: IEEE 754 binary64, round to nearest, ties to even.        *)
(* A float is [s, m, e] with value s * m * 2^e: s is 1 or -1, m the        *)
(* significand as a list of bits, least significant first, odd and at most *)
(* FloatBits long (<<>> for zero).  The numbers of this program stay far   *)
(* from the exponent limits, so there are no subnormals, infinities or NaNs. *)

\* significand width of binary64
FloatBits == 53
\* fraction bits a quotient is developed to before it is rounded
DivBits == 72

Abs(n) == IF n < 0 THEN -n ELSE n

Sign(n) == IF n < 0 THEN -1 ELSE 1

\* the bits of a natural number, least significant first
RECURSIVE NatBits(_)
NatBits(n) == IF n = 0 THEN <<>> ELSE <<n % 2>> \o NatBits(n \div 2)

\* the natural number of a (short) list of bits
RECURSIVE BitsNat(_)
BitsNat(b) == IF b = <<>> THEN 0 ELSE b[1] + 2 * BitsNat(Tail(b))

\* drop the zero bits at the most significant end
RECURSIVE TrimHigh(_)
TrimHigh(b) ==
    IF b = <<>> THEN <<>>
    ELSE IF b[Len(b)] = 1 THEN b
    ELSE TrimHigh(SubSeq(b, 1, Len(b) - 1))

\* the number of zero bits at the least significant end of a non-zero list
RECURSIVE LowZeros(_)
LowZeros(b) == IF b[1] = 1 THEN 0 ELSE 1 + LowZeros(Tail(b))

Zeros(k) == [i \in 1..k |-> 0]

Bit(b, i) == IF i <= Len(b) THEN b[i] ELSE 0

\* a + b + c on lists of bits, c a carry bit
RECURSIVE AddBits(_, _, _)
AddBits(a, b, c) ==
    IF a = <<>> /\ b = <<>> THEN (IF c = 1 THEN <<1>> ELSE <<>>)
    ELSE LET t == Bit(a, 1) + Bit(b, 1) + c
         IN  <<t % 2>> \o AddBits(IF a = <<>> THEN a ELSE Tail(a),
                                  IF b = <<>> THEN b ELSE Tail(b), t \div 2)

\* a - b - c on lists of bits, for a >= b + c
RECURSIVE SubBits(_, _, _)
SubBits(a, b, c) ==
    IF a = <<>> THEN <<>>
    ELSE LET t == a[1] - Bit(b, 1) - c
         IN  <<t % 2>> \o SubBits(Tail(a), IF b = <<>> THEN b ELSE Tail(b),
                                  IF t < 0 THEN 1 ELSE 0)

\* a < b on lists of bits without high zeros
RECURSIVE LessBits(_, _)
LessBits(a, b) ==
    IF Len(a) # Len(b) THEN Len(a) < Len(b)
    ELSE IF a = <<>> THEN FALSE
    ELSE LET n == Len(a)
         IN  IF a[n] # b[n] THEN a[n] < b[n]
             ELSE LessBits(TrimHigh(SubSeq(a, 1, n - 1)),
                           TrimHigh(SubSeq(b, 1, n - 1)))

\* b * k on a list of bits and a natural number
RECURSIVE MulBits(_, _)
MulBits(b, k) ==
    IF k = 0 THEN <<>>
    ELSE AddBits(IF k % 2 = 1 THEN b ELSE <<>>, <<0>> \o MulBits(b, k \div 2), 0)

FloatZero == [s |-> 1, m |-> <<>>, e |-> 0]

\* the float of an exactly representable value s * bits * 2^e
Norm(s, bits, e) ==
    LET t == TrimHigh(bits)
    IN  IF t = <<>> THEN FloatZero
        ELSE LET z == LowZeros(t)
             IN  [s |-> s, m |-> SubSeq(t, z + 1, Len(t)), e |-> e + z]

\* the float nearest to s * bits * 2^e, ties to even
Round(s, bits, e) ==
    LET t == TrimHigh(bits)
        k == Len(t) - FloatBits
    IN  IF k <= 0 THEN Norm(s, t, e)
        ELSE LET kept == SubSeq(t, k + 1, Len(t))
                 half == t[k] = 1
                 sticky == \E i \in 1..(k - 1) : t[i] = 1
                 up == half /\ (sticky \/ kept[1] = 1)
             IN  Norm(s, IF up THEN AddBits(kept, <<1>>, 0) ELSE kept, e + k)

\* float(n) of a small int
FloatOfInt(n) == Norm(Sign(n), NatBits(Abs(n)), 0)

\* the first n bits of the binary fraction r/q (r < q), most significant first,
\* followed by one bit telling whether the rest is non-zero
RECURSIVE FracBits(_, _, _)
FracBits(r, q, n) ==
    IF n = 0 THEN <<IF r # 0 THEN 1 ELSE 0>>
    ELSE <<(2 * r) \div q>> \o FracBits((2 * r) % q, q, n - 1)

Reverse(b) == [i \in 1..Len(b) |-> b[Len(b) + 1 - i]]

\* p / q of two ints, q > 0 (true division)
FloatDiv(p, q) ==
    Round(Sign(p),
          Reverse(FracBits(Abs(p) % q, q, DivBits)) \o NatBits(Abs(p) \div q),
          -(DivBits + 1))

\* a * k of a float and an int
FloatMulInt(a, k) == Round(a.s * Sign(k), MulBits(a.m, Abs(k)), a.e)

FloatNeg(a) == [a EXCEPT !.s = -a.s]

\* a + b of two floats
FloatAdd(a, b) ==
    LET e == IF a.e < b.e THEN a.e ELSE b.e
        x == Zeros(a.e - e) \o a.m
        y == Zeros(b.e - e) \o b.m
    IN  IF a.s = b.s THEN Round(a.s, AddBits(x, y, 0), e)
        ELSE IF LessBits(TrimHigh(x), TrimHigh(y)) THEN Round(b.s, SubBits(y, x, 0), e)
        ELSE Round(a.s, SubBits(x, y, 0), e)

\* int(a): truncation toward zero
FloatTrunc(a) ==
    IF a.e >= 0 THEN a.s * BitsNat(Zeros(a.e) \o a.m)
    ELSE IF -a.e >= Len(a.m) THEN 0
    ELSE a.s * BitsNat(SubSeq(a.m, 1 - a.e, Len(a.m)))

---------------------------------------------------------------------------
(* The curve *)

\* two points of the list have the same temperature
HasDuplicate(coords) ==
    \E i, j \in 1..Len(coords) : i # j /\ coords[i][1] = coords[j][1]

\* the temperatures of the list are not in ascending order as written
IsUnsorted(coords) ==
    \E i \in 1..(Len(coords) - 1) : coords[i][1] > coords[i + 1][1]

\* generate_curve_coefficients raises: IndexError from curve.pop(0) on an
\* empty list (line 48), ZeroDivisionError from line 52 when two neighbours
\* of the sorted list have the same temperature
CurveRaises(coords) == coords = <<>> \/ HasDuplicate(coords)

\* generate_curve_coefficients: one segment per consecutive pair of the sorted
\* points, keyed by the upper point's temperature, in insertion order, with
\* the floats m = dy / dx and b = y0 - m * x0 of lines 52-53.  (Called only
\* on points without duplicate temperatures: line 52 raises otherwise.)
generate_curve_coefficients(input_coords) ==
    LET curve == SortCoords(input_coords)
    IN  [i \in 1..(Len(curve) - 1) |->
            LET x0 == curve[i][1]
                y0 == curve[i][2]
                x1 == curve[i + 1][1]
                y1 == curve[i + 1][2]
                m == FloatDiv(y1 - y0, x1 - x0)
            IN  [key |-> x1, m |-> m,
                 b |-> FloatAdd(FloatOfInt(y0), FloatNeg(FloatMulInt(m, x0)))]]

\* line 63: int(segment[1][0] * temperature + segment[1][1])
SegmentValue(segment, temperature) ==
    FloatTrunc(FloatAdd(FloatMulInt(segment.m, temperature), segment.b))

\* target_fan_speed: the first segment whose key is >= temperature gives the
\* result; past the last segment the result is 100
RECURSIVE target_fan_speed(_, _)
target_fan_speed(curve, temperature) ==
    IF curve = <<>> THEN 100
    ELSE IF temperature <= curve[1].key THEN SegmentValue(curve[1], temperature)
    ELSE target_fan_speed(Tail(curve), temperature)

\* ZoneTarget without the floor at 0
ZoneTarget_NoFloor(speed, offset) ==
    LET v == speed + offset IN IF v < 100 THEN v ELSE 100

\* max(min(target_speed + offset, 100), 0) on line 201
ZoneTarget(speed, offset) ==
    LET v == speed + offset
        lo == IF v < 100 THEN v ELSE 100
    IN  IF lo > 0 THEN lo ELSE 0

\* FallbackPreset with the fallback left out
FallbackPreset_None(p) == p

\* line 214: FAN_PRESET_OPTIMAL if EXIT_PRESET is False else EXIT_PRESET
FallbackPreset(p) == IF p = PyFalse THEN FAN_PRESET_OPTIMAL ELSE p

\* QuitCode with the two success codes swapped
QuitCode_Swapped(ok, clean) == IF ~ok THEN 2 ELSE IF clean THEN 1 ELSE 0

\* lines 182-186: exit(2) when the restore failed, else exit(0 if clean else 1)
QuitCode(ok, clean) == IF ~ok THEN 2 ELSE IF clean THEN 0 ELSE 1

---------------------------------------------------------------------------
(* Helpers of the actions *)

\* values ipmi_cmd-backed preset queries can return: a preset, or False
PresetResults == FAN_PRESETS_STR \cup {PyFalse}

\* lists get_system_temps can return
RECURSIVE SeqsUpTo(_)
SeqsUpTo(n) ==
    IF n = 0 THEN {<<>>}
    ELSE LET shorter == SeqsUpTo(n - 1)
         IN  shorter \cup {Append(q, t) : q \in {r \in shorter : Len(r) = n - 1}, t \in TempValues}

TempReads == SeqsUpTo(MaxSensors)

\* one run of ipmitool through ipmi_cmd
Cmd(op, zone, val, ok, who) == [op |-> op, zone |-> zone, val |-> val, ok |-> ok, who |-> who]

\* sys.exit / exit / an uncaught exception: the process is gone
Exit(code) ==
    /\ pc' = "exited"
    /\ exitCode' = code
    /\ frames' = <<>>

\* the main program runs only while no handler activation sits on top of it
MainAt(l) == pc = l /\ frames = <<>>

---------------------------------------------------------------------------
(* Startup, lines 205-225 *)

\* the state in which the program text at label `at` starts to run, with the
\* control points `coords` written into the TEMPERATURE_CURVE constant
Boot(coords, at) ==
    /\ pc = at
    /\ exitCode = NoCode
    /\ handlers = {}
    /\ EXIT_PRESET = Unset
    /\ temp_curve = <<>>
    /\ preset = Unset
    /\ temps = <<>>
    /\ target_speed = Unset
    /\ zone_i = 1
    /\ frames = <<>>
    /\ lastCmd = Cmd("none", 0, 0, TRUE, "none")
    /\ cmdTick = 0
    /\ nRestore = 0
    /\ restoreFailed = FALSE
    /\ loopError = FALSE
    /\ nSignals = 0
    /\ startupPreset = Unset
    /\ firstPreset = Unset
    /\ badRead = FALSE
    /\ writeFailed = FALSE
    /\ forceFailed = FALSE
    /\ wrote = FALSE
    /\ curve_points = coords

Init == Boot(TEMPERATURE_CURVE, "which")

\* lines 206-208: shutil.which('ipmitool'), sys.exit(1) when it is missing
WhichIpmitool ==
    /\ MainAt("which")
    /\ \E found \in BOOLEAN :
          IF found
          THEN /\ pc' = "getpreset"
               /\ UNCHANGED <<exitCode, frames>>
          ELSE Exit(1)
    /\ UNCHANGED <<handlers, EXIT_PRESET, temp_curve, preset, temps, target_speed,
                   zone_i, lastCmd, cmdTick, nRestore, restoreFailed, loopError,
                   nSignals, startupPreset, firstPreset, badRead,
                   writeFailed, forceFailed, wrote, curve_points>>

\* line 213: EXIT_PRESET = get_fan_preset()
StartupGetPreset ==
    /\ MainAt("getpreset")
    /\ \E r \in PresetResults :
          /\ EXIT_PRESET' = r
          /\ startupPreset' = r
          /\ firstPreset' = IF r # PyFalse THEN r ELSE Unset
          /\ lastCmd' = Cmd("getPreset", 0, r, r # PyFalse, "main")
    /\ cmdTick' = 1 - cmdTick
    /\ pc' = "fallback"
    /\ UNCHANGED <<exitCode, handlers, temp_curve, preset, temps, target_speed,
                   zone_i, frames, nRestore, restoreFailed, loopError, nSignals,
                   badRead,
                   writeFailed, forceFailed, wrote, curve_points>>

\* line 214: the fallback to optimal
StartupFallback ==
    /\ MainAt("fallback")
    /\ EXIT_PRESET' = FallbackPreset(EXIT_PRESET)
    /\ pc' = "gencurve"
    /\ UNCHANGED <<exitCode, handlers, temp_curve, preset, temps, target_speed,
                   zone_i, frames, lastCmd, cmdTick, nRestore, restoreFailed,
                   loopError, nSignals, startupPreset, firstPreset, badRead,
                   writeFailed, forceFailed, wrote, curve_points>>

\* StartupCurve accepting every list: no segment for a list it cannot divide
StartupCurve_Accept ==
    /\ MainAt("gencurve")
    /\ temp_curve' = IF CurveRaises(curve_points) THEN <<>>
                     ELSE generate_curve_coefficients(curve_points)
    /\ pc' = "sensors"
    /\ UNCHANGED <<exitCode, handlers, EXIT_PRESET, preset, temps, target_speed,
                   zone_i, frames, lastCmd, cmdTick, nRestore, restoreFailed,
                   loopError, nSignals, startupPreset, firstPreset, badRead,
                   writeFailed, forceFailed, wrote, curve_points>>

\* line 216: temp_curve = generate_curve_coefficients(TEMPERATURE_CURVE).  The
\* call is outside the try block and before the handlers are installed: an
\* exception of line 48 or 52 ends the interpreter with status 1
StartupCurve ==
    /\ MainAt("gencurve")
    /\ IF CurveRaises(curve_points)
       THEN /\ Exit(1)
            /\ UNCHANGED temp_curve
       ELSE /\ temp_curve' = generate_curve_coefficients(curve_points)
            /\ pc' = "sensors"
            /\ UNCHANGED <<exitCode, frames>>
    /\ UNCHANGED <<handlers, EXIT_PRESET, preset, temps, target_speed,
                   zone_i, lastCmd, cmdTick, nRestore, restoreFailed,
                   loopError, nSignals, startupPreset, firstPreset, badRead,
                   writeFailed, forceFailed, wrote, curve_points>>

\* lines 218-220: ipmi_sdr_sensors_from_type; on False, map() over it raises
\* TypeError outside the try block and the interpreter exits with status 1
StartupSensors ==
    /\ MainAt("sensors")
    /\ \E ok \in BOOLEAN :
          /\ lastCmd' = Cmd("listSensors", 0, 0, ok, "main")
          /\ IF ok
             THEN /\ pc' = "sigint"
                  /\ UNCHANGED <<exitCode, frames>>
             ELSE Exit(1)
    /\ cmdTick' = 1 - cmdTick
    /\ UNCHANGED <<handlers, EXIT_PRESET, temp_curve, preset, temps, target_speed,
                   zone_i, nRestore, restoreFailed, loopError, nSignals, startupPreset, firstPreset, badRead,
                   writeFailed, forceFailed, wrote, curve_points>>

\* line 223: signal.signal(signal.SIGINT, quit_and_reset_preset)
InstallSigint ==
    /\ MainAt("sigint")
    /\ handlers' = handlers \cup {SIGINT}
    /\ pc' = "sigterm"
    /\ UNCHANGED <<exitCode, EXIT_PRESET, temp_curve, preset, temps, target_speed,
                   zone_i, frames, lastCmd, cmdTick, nRestore, restoreFailed,
                   loopError, nSignals, startupPreset, firstPreset, badRead,
                   writeFailed, forceFailed, wrote, curve_points>>

\* line 225: signal.signal(signal.SIGTERM, quit_and_reset_preset)
InstallSigterm ==
    /\ MainAt("sigterm")
    /\ handlers' = handlers \cup {SIGTERM}
    /\ pc' = "check"
    /\ UNCHANGED <<exitCode, EXIT_PRESET, temp_curve, preset, temps, target_speed,
                   zone_i, frames, lastCmd, cmdTick, nRestore, restoreFailed,
                   loopError, nSignals, startupPreset, firstPreset, badRead,
                   writeFailed, forceFailed, wrote, curve_points>>

---------------------------------------------------------------------------
(* check_preset_full(True), lines 151-158, called on line 229 *)

\* CheckPresetQuery that also stores a successful query in EXIT_PRESET
CheckPresetQuery_Capture ==
    /\ MainAt("check")
    /\ \E r \in PresetResults :
          /\ preset' = r
          /\ EXIT_PRESET' = IF r # PyFalse THEN r ELSE EXIT_PRESET
          /\ firstPreset' = IF firstPreset = Unset /\ r # PyFalse THEN r ELSE firstPreset
          /\ lastCmd' = Cmd("getPreset", 0, r, r # PyFalse, "check")
    /\ cmdTick' = 1 - cmdTick
    /\ pc' = "check_set"
    /\ UNCHANGED <<exitCode, handlers, temp_curve, temps, target_speed,
                   zone_i, frames, nRestore, restoreFailed, loopError, nSignals,
                   startupPreset, badRead,
                   writeFailed, forceFailed, wrote, curve_points>>

\* line 152: preset = get_fan_preset()
CheckPresetQuery ==
    /\ MainAt("check")
    /\ \E r \in PresetResults :
          /\ preset' = r
          /\ firstPreset' = IF firstPreset = Unset /\ r # PyFalse THEN r ELSE firstPreset
          /\ lastCmd' = Cmd("getPreset", 0, r, r # PyFalse, "check")
    /\ cmdTick' = 1 - cmdTick
    /\ pc' = "check_set"
    /\ UNCHANGED <<exitCode, handlers, EXIT_PRESET, temp_curve, temps, target_speed,
                   zone_i, frames, nRestore, restoreFailed, loopError, nSignals,
                   startupPreset, badRead,
                   writeFailed, forceFailed, wrote, curve_points>>

\* CheckPresetSet that records the forced preset in EXIT_PRESET
CheckPresetSet_Overwrite ==
    /\ MainAt("check_set")
    /\ IF preset # FAN_PRESET_FULL
       THEN /\ \E ok \in BOOLEAN :
                  lastCmd' = Cmd("setPreset", 0, FAN_PRESET_FULL, ok, "check")
            /\ cmdTick' = 1 - cmdTick
            /\ EXIT_PRESET' = FAN_PRESET_FULL
            /\ forceFailed' = ~lastCmd'.ok
            /\ wrote' = TRUE
       ELSE UNCHANGED <<lastCmd, cmdTick, EXIT_PRESET, forceFailed, wrote>>
    /\ preset' = Unset
    /\ pc' = "sleep"
    /\ UNCHANGED <<exitCode, handlers, temp_curve, temps,
                   target_speed, zone_i, frames, nRestore, restoreFailed, loopError,
                   nSignals, startupPreset, firstPreset, badRead,
                   writeFailed, curve_points>>

\* CheckPresetSet that raises when set_fan_preset(FAN_PRESET_FULL) fails
CheckPresetSet_Strict ==
    /\ MainAt("check_set")
    /\ IF preset # FAN_PRESET_FULL
       THEN /\ \E ok \in BOOLEAN :
                  lastCmd' = Cmd("setPreset", 0, FAN_PRESET_FULL, ok, "check")
            /\ cmdTick' = 1 - cmdTick
            /\ forceFailed' = ~lastCmd'.ok
            /\ wrote' = TRUE
            /\ loopError' = (loopError \/ ~lastCmd'.ok)
            /\ pc' = IF lastCmd'.ok THEN "sleep" ELSE "except"
       ELSE /\ pc' = "sleep"
            /\ UNCHANGED <<lastCmd, cmdTick, forceFailed, wrote, loopError>>
    /\ preset' = Unset
    /\ UNCHANGED <<exitCode, handlers, EXIT_PRESET, temp_curve, temps,
                   target_speed, zone_i, frames, nRestore, restoreFailed,
                   nSignals, startupPreset, firstPreset, badRead,
                   writeFailed, curve_points>>

\* lines 154-156: set_fan_preset(FAN_PRESET_FULL) unless the preset is full
\* already; its result is dropped, check_preset_full returns (its local is
\* gone) and line 230 goes on to the loop
CheckPresetSet ==
    /\ MainAt("check_set")
    /\ IF preset # FAN_PRESET_FULL
       THEN /\ \E ok \in BOOLEAN :
                  lastCmd' = Cmd("setPreset", 0, FAN_PRESET_FULL, ok, "check")
            /\ cmdTick' = 1 - cmdTick
            /\ forceFailed' = ~lastCmd'.ok
            /\ wrote' = TRUE
       ELSE UNCHANGED <<lastCmd, cmdTick, forceFailed, wrote>>
    /\ preset' = Unset
    /\ pc' = "sleep"
    /\ UNCHANGED <<exitCode, handlers, EXIT_PRESET, temp_curve, temps,
                   target_speed, zone_i, frames, nRestore, restoreFailed, loopError,
                   nSignals, startupPreset, firstPreset, badRead,
                   writeFailed, curve_points>>

---------------------------------------------------------------------------
(* main_loop, lines 189-202, called forever on lines 230-232 *)

\* line 190: time.sleep(LOOP_DELAY)
LoopSleep ==
    /\ MainAt("sleep")
    /\ pc' = "read"
    /\ UNCHANGED <<exitCode, handlers, EXIT_PRESET, temp_curve, preset, temps,
                   target_speed, zone_i, frames, lastCmd, cmdTick, nRestore,
                   restoreFailed, loopError, nSignals, startupPreset, firstPreset, badRead,
                   writeFailed, forceFailed, wrote, curve_points>>

\* lines 192-194: temps = get_system_temps(...); False raises IOError, which
\* leaves main_loop for the except clause of line 235
LoopRead ==
    /\ MainAt("read")
    /\ \/ /\ lastCmd' = Cmd("readTemps", 0, 0, FALSE, "loop")
          /\ loopError' = TRUE
          /\ badRead' = TRUE
          /\ pc' = "except"
          /\ UNCHANGED temps
       \/ /\ \E r \in TempReads :
                /\ temps' = r
                /\ badRead' = (badRead \/ r = <<>>)
          /\ lastCmd' = Cmd("readTemps", 0, 0, TRUE, "loop")
          /\ UNCHANGED loopError
          /\ pc' = "eval"
    /\ cmdTick' = 1 - cmdTick
    /\ UNCHANGED <<exitCode, handlers, EXIT_PRESET, temp_curve, preset, target_speed,
                   zone_i, frames, nRestore, restoreFailed, nSignals, startupPreset,
                   firstPreset, writeFailed, forceFailed, wrote, curve_points>>

\* LoopEval that takes speed 0 for an empty read instead of raising
LoopEval_DefaultSpeed ==
    /\ MainAt("eval")
    /\ target_speed' = IF temps = <<>> THEN 0
                       ELSE target_fan_speed(temp_curve, MaxOf(temps))
    /\ zone_i' = 1
    /\ pc' = "zones"
    /\ UNCHANGED <<exitCode, handlers, EXIT_PRESET, temp_curve, preset, temps,
                   frames, lastCmd, cmdTick, nRestore, restoreFailed, loopError,
                   nSignals, startupPreset, firstPreset, badRead,
                   writeFailed, forceFailed, wrote, curve_points>>

\* line 198: target_speed = target_fan_speed(temperature_curve, max(temps));
\* max() of an empty list raises ValueError
LoopEval ==
    /\ MainAt("eval")
    /\ IF temps = <<>>
       THEN /\ loopError' = TRUE
            /\ pc' = "except"
            /\ UNCHANGED <<temps, target_speed, zone_i>>
       ELSE /\ target_speed' = target_fan_speed(temp_curve, MaxOf(temps))
            /\ zone_i' = 1
            /\ pc' = "zones"
            /\ UNCHANGED <<temps, loopError>>
    /\ UNCHANGED <<exitCode, handlers, EXIT_PRESET, temp_curve, preset,
                   frames, lastCmd, cmdTick, nRestore, restoreFailed, nSignals,
                   startupPreset, firstPreset, badRead,
                   writeFailed, forceFailed, wrote, curve_points>>

\* LoopSetZone that drops the result of set_zone_speed and goes on
LoopSetZone_Continue ==
    /\ MainAt("zones")
    /\ zone_i <= Len(FAN_ZONES)
    /\ \E ok \in BOOLEAN :
          /\ lastCmd' = Cmd("setZoneSpeed", FAN_ZONES[zone_i],
                            ZoneTarget(target_speed, FAN_ZONE_OFFSETS[zone_i]), ok, "loop")
          /\ writeFailed' = (writeFailed \/ ~ok)
    /\ zone_i' = zone_i + 1
    /\ wrote' = TRUE
    /\ cmdTick' = 1 - cmdTick
    /\ UNCHANGED <<pc, exitCode, handlers, EXIT_PRESET, temp_curve, preset, temps,
                   target_speed, frames, nRestore, restoreFailed, loopError, nSignals,
                   startupPreset, firstPreset, badRead, forceFailed, curve_points>>

\* lines 200-202: one turn of the for loop over zip(FAN_ZONES, FAN_ZONE_OFFSETS);
\* a False from set_zone_speed raises IOError, which leaves main_loop (its
\* locals are gone) for the except clause of line 235
LoopSetZone ==
    /\ MainAt("zones")
    /\ zone_i <= Len(FAN_ZONES)
    /\ \E ok \in BOOLEAN :
          /\ lastCmd' = Cmd("setZoneSpeed", FAN_ZONES[zone_i],
                            ZoneTarget(target_speed, FAN_ZONE_OFFSETS[zone_i]), ok, "loop")
          /\ IF ~ok
             THEN /\ loopError' = TRUE
                  /\ pc' = "except"
                  /\ zone_i' = 1
                  /\ temps' = <<>>
                  /\ target_speed' = Unset
             ELSE /\ zone_i' = zone_i + 1
                  /\ UNCHANGED <<pc, loopError, temps, target_speed>>
          /\ writeFailed' = (writeFailed \/ ~ok)
    /\ wrote' = TRUE
    /\ cmdTick' = 1 - cmdTick
    /\ UNCHANGED <<exitCode, handlers, EXIT_PRESET, temp_curve, preset,
                   frames, nRestore, restoreFailed, nSignals,
                   startupPreset, firstPreset, badRead,
                   forceFailed, curve_points>>

\* LoopReturn of a loop that runs once: the program falls through to the
\* restore as on a clean shutdown
LoopReturn_Finish ==
    /\ MainAt("zones")
    /\ zone_i > Len(FAN_ZONES)
    /\ zone_i' = 1
    /\ temps' = <<>>
    /\ target_speed' = Unset
    /\ frames' = <<[at |-> "call", clean |-> TRUE, ok |-> TRUE]>>
    /\ pc' = "quit"
    /\ UNCHANGED <<exitCode, handlers, EXIT_PRESET, temp_curve, preset,
                   lastCmd, cmdTick, nRestore, restoreFailed, loopError,
                   nSignals, startupPreset, firstPreset, badRead,
                   writeFailed, forceFailed, wrote, curve_points>>

\* the for loop of line 200 is exhausted: main_loop returns (its locals are
\* gone) to the while True of lines 230-232, which calls it again
LoopReturn ==
    /\ MainAt("zones")
    /\ zone_i > Len(FAN_ZONES)
    /\ zone_i' = 1
    /\ temps' = <<>>
    /\ target_speed' = Unset
    /\ pc' = "sleep"
    /\ UNCHANGED <<exitCode, handlers, EXIT_PRESET, temp_curve, preset,
                   frames, lastCmd, cmdTick, nRestore, restoreFailed, loopError,
                   nSignals, startupPreset, firstPreset, badRead,
                   writeFailed, forceFailed, wrote, curve_points>>

\* ExceptHandler that exits with status 1 without restoring the preset
ExceptHandler_NoRestore ==
    /\ MainAt("except")
    /\ Exit(1)
    /\ UNCHANGED <<handlers, EXIT_PRESET, temp_curve, preset, temps,
                   target_speed, zone_i, lastCmd, cmdTick, nRestore, restoreFailed,
                   loopError, nSignals, startupPreset, firstPreset, badRead,
                   writeFailed, forceFailed, wrote, curve_points>>

\* lines 235-238: except Exception: quit_and_reset_preset(clean=False).
\* The except KeyboardInterrupt clause of lines 233-234 never runs: the try
\* block is entered after line 223 has replaced the handler that raises it.
ExceptHandler ==
    /\ MainAt("except")
    /\ frames' = <<[at |-> "call", clean |-> FALSE, ok |-> TRUE]>>
    /\ pc' = "quit"
    /\ UNCHANGED <<exitCode, handlers, EXIT_PRESET, temp_curve, preset, temps,
                   target_speed, zone_i, lastCmd, cmdTick, nRestore, restoreFailed,
                   loopError, nSignals, startupPreset, firstPreset, badRead,
                   writeFailed, forceFailed, wrote, curve_points>>

---------------------------------------------------------------------------
(* Signals *)

\* SignalHandled with a handler that exits at once, without the restore
SignalHandled_ExitOnly(sig) ==
    /\ pc # "exited"
    /\ sig \in handlers
    /\ nSignals < MaxSignals
    /\ nSignals' = nSignals + 1
    /\ Exit(0)
    /\ UNCHANGED <<handlers, EXIT_PRESET, temp_curve, preset, temps,
                   target_speed, zone_i, lastCmd, cmdTick, nRestore, restoreFailed,
                   loopError, startupPreset, firstPreset, badRead,
                   writeFailed, forceFailed, wrote, curve_points>>

\* a signal whose handler is quit_and_reset_preset: Python runs the handler
\* on top of whatever is executing, an earlier activation of it included
\* (clean keeps its default True)
SignalHandled(sig) ==
    /\ pc # "exited"
    /\ sig \in handlers
    /\ nSignals < MaxSignals
    /\ nSignals' = nSignals + 1
    /\ frames' = Append(frames, [at |-> "call", clean |-> TRUE, ok |-> TRUE])
    /\ UNCHANGED <<pc, exitCode, handlers, EXIT_PRESET, temp_curve, preset, temps,
                   target_speed, zone_i, lastCmd, cmdTick, nRestore, restoreFailed,
                   loopError, startupPreset, firstPreset, badRead,
                   writeFailed, forceFailed, wrote, curve_points>>

\* a signal before its signal.signal call (lines 205-225): SIGTERM kills the
\* process, SIGINT raises KeyboardInterrupt outside the try block
SignalDefault(sig) ==
    /\ pc # "exited"
    /\ sig \notin handlers
    /\ Exit(128 + sig)
    /\ UNCHANGED <<handlers, EXIT_PRESET, temp_curve, preset, temps, target_speed,
                   zone_i, lastCmd, cmdTick, nRestore, restoreFailed, loopError,
                   nSignals, startupPreset, firstPreset, badRead,
                   writeFailed, forceFailed, wrote, curve_points>>

---------------------------------------------------------------------------
(* quit_and_reset_preset, lines 181-186: the topmost activation runs *)

Top == frames[Len(frames)]

SetTop(f) == [frames EXCEPT ![Len(frames)] = f]

\* the command line 182 hands to set_fan_preset
RestoreCmd == Cmd("setPreset", 0, EXIT_PRESET, TRUE, "quit")

\* line 182, first half: set_fan_preset(EXIT_PRESET) starts ipmitool
QuitIssue ==
    /\ frames # <<>>
    /\ Top.at = "call"
    /\ lastCmd' = RestoreCmd
    /\ cmdTick' = 1 - cmdTick
    /\ nRestore' = nRestore + 1
    /\ frames' = SetTop([Top EXCEPT !.at = "ipmi"])
    /\ UNCHANGED <<pc, exitCode, handlers, EXIT_PRESET, temp_curve, preset, temps,
                   target_speed, zone_i, restoreFailed, loopError, nSignals,
                   startupPreset, firstPreset, badRead,
                   writeFailed, forceFailed, wrote, curve_points>>

\* line 182, second half: ipmitool is done and set_fan_preset returns
QuitReturn ==
    /\ frames # <<>>
    /\ Top.at = "ipmi"
    /\ \E ok \in BOOLEAN :
          /\ frames' = SetTop([Top EXCEPT !.at = "ret", !.ok = ok])
          /\ lastCmd' = [lastCmd EXCEPT !.ok = ok]
          /\ restoreFailed' = (restoreFailed \/ ~ok)
    /\ UNCHANGED <<pc, exitCode, handlers, EXIT_PRESET, temp_curve, preset, temps,
                   target_speed, zone_i, cmdTick, nRestore, loopError, nSignals,
                   startupPreset, firstPreset, badRead,
                   writeFailed, forceFailed, wrote, curve_points>>

\* QuitExit of a handler that returns to the interrupted code instead of exiting
QuitExit_Return ==
    /\ frames # <<>>
    /\ Top.at = "ret"
    /\ frames' = SubSeq(frames, 1, Len(frames) - 1)
    /\ UNCHANGED <<pc, exitCode, handlers, EXIT_PRESET, temp_curve, preset, temps,
                   target_speed, zone_i, lastCmd, cmdTick, nRestore, restoreFailed,
                   loopError, nSignals, startupPreset, firstPreset, badRead,
                   writeFailed, forceFailed, wrote, curve_points>>

\* lines 183-186: exit(2), or exit(0 if clean else 1); SystemExit is caught
\* by no activation below and by neither except clause of lines 233-238
QuitExit ==
    /\ frames # <<>>
    /\ Top.at = "ret"
    /\ Exit(QuitCode(Top.ok, Top.clean))
    /\ UNCHANGED <<handlers, EXIT_PRESET, temp_curve, preset, temps, target_speed,
                   zone_i, lastCmd, cmdTick, nRestore, restoreFailed, loopError,
                   nSignals, startupPreset, firstPreset, badRead,
                   writeFailed, forceFailed, wrote, curve_points>>

---------------------------------------------------------------------------

Next ==
    \/ WhichIpmitool
    \/ StartupGetPreset
    \/ StartupFallback
    \/ StartupCurve
    \/ StartupSensors
    \/ InstallSigint
    \/ InstallSigterm
    \/ CheckPresetQuery
    \/ CheckPresetSet
    \/ LoopSleep
    \/ LoopRead
    \/ LoopEval
    \/ LoopSetZone
    \/ LoopReturn
    \/ ExceptHandler
    \/ \E sig \in Signals : SignalHandled(sig)
    \/ \E sig \in Signals : SignalDefault(sig)
    \/ QuitIssue
    \/ QuitReturn
    \/ QuitExit

Spec == Init /\ [][Next]_vars

---------------------------------------------------------------------------
(* The program started with an edited TEMPERATURE_CURVE *)

\* the shipped points, written in another order
UnsortedCurve == <<<<90, 100>>, <<0, 0>>, <<60, 50>>, <<40, 20>>, <<80, 80>>>>
\* two points at 40 degrees
DuplicateCurve == <<<<0, 0>>, <<40, 20>>, <<40, 50>>, <<90, 100>>>>
\* two points at 40 degrees, out of order
UnsortedDuplicateCurve == <<<<40, 20>>, <<0, 0>>, <<40, 50>>>>
EmptyCurve == <<>>

CurveConfigs == {UnsortedCurve, DuplicateCurve, UnsortedDuplicateCurve, EmptyCurve}

InitConfig == \E coords \in CurveConfigs : Boot(coords, "which")

SpecConfig == InitConfig /\ [][Next]_vars

---------------------------------------------------------------------------
(* The two curve functions on their own: generate_curve_coefficients on a   *)
(* list of control points, then target_fan_speed on a temperature           *)

\* temperatures and speeds of the control points tried
CurveTemps == {0, 11, 40, 90}
CurveSpeeds == {-10, 0, 15, 100, 120}
\* temperatures the curve is evaluated at
EvalTemps == {-5, 0, 11, 40, 50, 90, 95}

\* the lists of n points with ascending temperatures
AscendingCurves(n) ==
    {c \in [1..n -> CurveTemps \X CurveSpeeds] : \A i \in 1..(n - 1) : c[i][1] < c[i + 1][1]}

EvalCurves == {TEMPERATURE_CURVE} \cup AscendingCurves(2) \cup AscendingCurves(3)

InitEval == \E coords \in EvalCurves : Boot(coords, "curve_gen")

\* lines 46-56 on the list under test
EvalGenerate ==
    /\ MainAt("curve_gen")
    /\ ~CurveRaises(curve_points)
    /\ temp_curve' = generate_curve_coefficients(curve_points)
    /\ pc' = "curve_call"
    /\ UNCHANGED <<exitCode, handlers, EXIT_PRESET, preset, temps, target_speed,
                   zone_i, frames, lastCmd, cmdTick, nRestore, restoreFailed,
                   loopError, nSignals, startupPreset, firstPreset, badRead,
                   writeFailed, forceFailed, wrote, curve_points>>

\* lines 59-64 on one temperature; temps holds the argument
EvalCall ==
    /\ MainAt("curve_call")
    /\ \E temperature \in EvalTemps :
          /\ temps' = <<temperature>>
          /\ target_speed' = target_fan_speed(temp_curve, temperature)
    /\ pc' = "curve_done"
    /\ UNCHANGED <<exitCode, handlers, EXIT_PRESET, temp_curve, preset,
                   zone_i, frames, lastCmd, cmdTick, nRestore, restoreFailed,
                   loopError, nSignals, startupPreset, firstPreset, badRead,
                   writeFailed, forceFailed, wrote, curve_points>>

NextEval ==
    \/ EvalGenerate
    \/ EvalCall

SpecEval == InitEval /\ [][NextEval]_vars

---------------------------------------------------------------------------
(* Properties of the fail-safe shutdown *)

\* a termination trigger has fired: a handled signal or an exception in the try block
Triggered == nSignals > 0 \/ loopError

\* the process ended after both signal.signal calls of lines 223-225
ExitedAfterInstall == pc = "exited" /\ handlers = Signals

\* C1: once a termination trigger has fired, set_fan_preset(EXIT_PRESET) is
\* issued by quit_and_reset_preset at most once, and exactly once by the time
\* the process has exited, however many triggers fire and wherever they arrive.
C1_RestorationExactlyOnce ==
    Triggered /\ handlers = Signals =>
        /\ nRestore <= 1
        /\ (pc = "exited" => nRestore = 1)

\* C2 as stated: the process never reaches its exited state without a
\* set_fan_preset(EXIT_PRESET) call having been issued before.
C2_EveryExitRestores == pc = "exited" => nRestore >= 1

\* C2 as amended: an exit that follows both signal.signal calls (a loop error,
\* a SIGINT or a SIGTERM) never happens without a set_fan_preset(EXIT_PRESET)
\* call having been issued before.
C2_ExitAfterInstallRestores == ExitedAfterInstall => nRestore >= 1

\* an exit through the except clause, after a restore that was issued
C2_Witness ==
    /\ ExitedAfterInstall
    /\ loopError
    /\ nSignals = 0
    /\ nRestore = 1
    /\ lastCmd.who = "quit"

\* C3: whenever a set_fan_preset(EXIT_PRESET) call of the shutdown path has
\* failed, the process exits with code 2, whatever triggered the shutdown and
\* whatever trigger arrives before the exit.
C3_RestoreFailureExits2 == ExitedAfterInstall /\ restoreFailed => exitCode = 2

\* C4: a shutdown triggered by a loop error whose restoration succeeds exits
\* with code 1, never 0, also when a signal is delivered while it is in progress.
C4_ErrorShutdownExits1 ==
    ExitedAfterInstall /\ loopError /\ nRestore >= 1 /\ ~restoreFailed => exitCode = 1

\* C5: a shutdown triggered only by signals delivered after both handlers are
\* installed, with no loop error, whose restoration succeeds (the exiting
\* activation's set_fan_preset returned True and none returned False) exits
\* with code 0.
C5_SignalShutdownExits0 ==
    ExitedAfterInstall /\ ~loopError /\ nSignals > 0 /\ nRestore >= 1 /\ ~restoreFailed
        => exitCode = 0

\* a signal-only shutdown that exited 0 after one successful restore
C5_Witness ==
    /\ ExitedAfterInstall
    /\ ~loopError
    /\ nSignals = 1
    /\ nRestore = 1
    /\ ~restoreFailed
    /\ exitCode = 0

---------------------------------------------------------------------------
(* Properties of the captured preset *)

\* the most recent ipmitool command is the restore of line 182
LastIsRestore == lastCmd.who = "quit"

\* line 214 has run
Captured == pc \notin {"which", "getpreset", "fallback"}

\* C6: when the get_fan_preset() of line 213 failed, EXIT_PRESET is
\* FAN_PRESET_OPTIMAL in every state in which a handler is installed (so that
\* quit_and_reset_preset can start), never the failure sentinel, unset or 0,
\* and every restore issued passes FAN_PRESET_OPTIMAL.
C6_FallbackIsOptimal ==
    startupPreset = PyFalse /\ handlers # {} =>
        /\ EXIT_PRESET = FAN_PRESET_OPTIMAL
        /\ EXIT_PRESET \notin {PyFalse, Unset, 0}
        /\ (LastIsRestore => lastCmd.val = FAN_PRESET_OPTIMAL)

\* the startup query failed, one signal came, set_fan_preset(optimal) was
\* issued once and succeeded, and the process exited 0
C6_Witness ==
    /\ startupPreset = PyFalse
    /\ pc = "exited"
    /\ nSignals = 1
    /\ nRestore = 1
    /\ LastIsRestore
    /\ lastCmd.val = FAN_PRESET_OPTIMAL
    /\ lastCmd.ok
    /\ exitCode = 0

\* C7 as stated: the preset passed to set_fan_preset by the shutdown path is the
\* result of the first preset query that succeeded, the one of
\* check_preset_full included when the startup query failed.
C7_RestoresFirstSuccessfulQuery ==
    LastIsRestore /\ firstPreset # Unset => lastCmd.val = firstPreset

\* C7 as amended: the preset passed to set_fan_preset by the shutdown path is
\* the result of the startup query of line 213 when that succeeded and
\* FAN_PRESET_OPTIMAL when it failed; a later query is never captured.
C7_RestoresStartupQueryOrFallback ==
    LastIsRestore =>
        lastCmd.val = (IF startupPreset = PyFalse THEN FAN_PRESET_OPTIMAL ELSE startupPreset)

\* the startup query failed, the query of check_preset_full returned
\* another preset, and the restore passed FAN_PRESET_OPTIMAL
C7_Witness ==
    /\ LastIsRestore
    /\ startupPreset = PyFalse
    /\ firstPreset = FAN_PRESET_HEAVYIO
    /\ lastCmd.val = FAN_PRESET_OPTIMAL

\* C8: once line 214 has run, no step changes EXIT_PRESET: not
\* check_preset_full, not a loop iteration, not a signal handler and not a
\* trigger that arrives during a restore.
C8_WriteOnce == [][Captured => EXIT_PRESET' = EXIT_PRESET]_vars

\* the override was forced, an iteration ran, and a second signal arrived while
\* the restore of the first was in flight; EXIT_PRESET is still the captured value
C8_Witness ==
    /\ Len(frames) = 2
    /\ frames[1].at = "ipmi"
    /\ pc = "zones"
    /\ zone_i = 2
    /\ firstPreset = FAN_PRESET_STANDARD
    /\ EXIT_PRESET = FAN_PRESET_STANDARD

---------------------------------------------------------------------------
(* Properties of the control loop *)

\* this step issues set_zone_speed
ZoneWriteStep == cmdTick' # cmdTick /\ lastCmd'.op = "setZoneSpeed"

\* clamp(v, lo, hi)
C9_Clamp(v, lo, hi) == IF v < lo THEN lo ELSE IF v > hi THEN hi ELSE v

\* the largest element of a non-empty list
C9_Maximum(s) == CHOOSE m \in {s[i] : i \in DOMAIN s} : \A i \in DOMAIN s : s[i] <= m

\* C9: every set_zone_speed of an iteration writes, to the zone the for loop is
\* at, clamp(evaluate(curve, maximum of this iteration's readings) + that
\* zone's offset, 0, 100).
C9_ZoneSpeedFromMaxReading ==
    [][ZoneWriteStep =>
          /\ temps # <<>>
          /\ zone_i \in 1..Len(FAN_ZONES)
          /\ lastCmd'.zone = FAN_ZONES[zone_i]
          /\ lastCmd'.val =
                C9_Clamp(target_fan_speed(generate_curve_coefficients(TEMPERATURE_CURVE),
                                          C9_Maximum(temps))
                           + FAN_ZONE_OFFSETS[zone_i], 0, 100)]_vars

\* readings 30 and 50: the base speed is 35 (the average 40 would give 20) and
\* zone 1, offset -30, was written 5
C9_Witness ==
    /\ temps = <<30, 50>>
    /\ lastCmd.op = "setZoneSpeed"
    /\ lastCmd.zone = 1
    /\ lastCmd.val = 5
    /\ target_speed = 35
    /\ zone_i = 3

\* C10: after a temperature read that failed or came back empty no
\* set_zone_speed is issued and no target speed is set; the program is at the
\* evaluation that raises, in the except clause, in quit_and_reset_preset
\* entered with clean=False, or has exited after a restore was issued.
C10_BadReadIsFatal ==
    [][badRead' =>
          /\ ~ZoneWriteStep
          /\ target_speed' = Unset
          /\ pc' \in {"eval", "except", "quit", "exited"}
          /\ (pc' = "eval" => temps' = <<>>)
          /\ (pc' \in {"except", "quit"} => loopError')
          /\ (pc' = "quit" => frames' # <<>> /\ ~frames'[1].clean)
          /\ (pc' = "exited" => nRestore' >= 1)]_vars

\* an empty read (the command itself succeeded) raised in line 198 and the
\* except clause entered quit_and_reset_preset(clean=False); no zone was written
C10_Witness ==
    /\ badRead
    /\ lastCmd.op = "readTemps"
    /\ lastCmd.ok
    /\ loopError
    /\ pc = "quit"
    /\ frames = <<[at |-> "call", clean |-> FALSE, ok |-> TRUE]>>

---------------------------------------------------------------------------
(* Properties of the loop's failure handling and of the handlers *)

\* this step issues an ipmitool command
CmdStep == cmdTick' # cmdTick

\* positions inside main_loop
LoopPcs == {"sleep", "read", "eval", "zones"}

\* C11: after a set_zone_speed that returned False no further set_zone_speed
\* is issued (no remaining zone, no retry, no later iteration); the program is
\* in the except clause, in quit_and_reset_preset entered with clean=False, or
\* has exited after a restore was issued.
C11_FailedWriteIsFatal ==
    [][/\ writeFailed => ~ZoneWriteStep
       /\ writeFailed' =>
             /\ loopError'
             /\ pc' \in {"except", "quit", "exited"}
             /\ (pc' = "quit" => frames' # <<>> /\ ~frames'[1].clean)
             /\ (pc' = "exited" => nRestore' >= 1)]_vars

\* a zone write failed, no other command followed but the restore issued by
\* the quit_and_reset_preset(clean=False) of the except clause
C11_Witness ==
    /\ writeFailed
    /\ pc = "quit"
    /\ ~frames[1].clean
    /\ nSignals = 0
    /\ LastIsRestore
    /\ nRestore = 1

\* C15: once a signal handler has started, the interrupted program never moves
\* again: no temperature read and no set_zone_speed is issued, the only command
\* issued is the restore set_fan_preset(EXIT_PRESET), and the only change of
\* position is the exit.
C15_HandlerNeverResumes ==
    [][nSignals > 0 =>
          /\ (CmdStep => lastCmd'.who = "quit" /\ lastCmd'.op = "setPreset"
                         /\ lastCmd'.val = EXIT_PRESET)
          /\ pc' \in {pc, "exited"}
          /\ (pc' # "exited" => frames' # <<>>)]_vars

\* a handler that started between the two zone writes of an iteration has
\* issued the restore, which returned; zone 1 was not written
C15_Witness ==
    /\ pc = "zones"
    /\ zone_i = 2
    /\ Len(frames) = 1
    /\ frames[1].at = "ret"
    /\ LastIsRestore

\* C17: the step of check_preset_full after its query issues
\* set_fan_preset(FAN_PRESET_FULL) exactly when the queried preset is not
\* FAN_PRESET_FULL, and whatever that call returns the program goes on to the
\* loop without an error.
C17_ForceFullAndProceed ==
    [][pc = "check_set" /\ frames = <<>> /\ frames' = <<>> =>
          /\ (preset # FAN_PRESET_FULL <=>
                 CmdStep /\ lastCmd'.op = "setPreset" /\ lastCmd'.val = FAN_PRESET_FULL)
          /\ (preset = FAN_PRESET_FULL => ~CmdStep)
          /\ pc' = "sleep"
          /\ ~loopError'
          /\ nRestore' = 0]_vars

\* set_fan_preset(FAN_PRESET_FULL) failed and the loop went on to write zone 1
C17_Witness ==
    /\ forceFailed
    /\ ~loopError
    /\ pc = "zones"
    /\ lastCmd.op = "setZoneSpeed"
    /\ lastCmd.zone = 1
    /\ lastCmd.ok

\* the for loop of line 200 is exhausted
AtLoopEnd == pc = "zones" /\ zone_i = Len(FAN_ZONES) + 1

\* C18: a step taken inside the loop that leaves no signal delivered and no
\* loop error raised stays inside the loop and starts no restore, and the end
\* of an iteration leads to the sleep of the next one.
C18_LoopNeverCompletes ==
    [][(pc \in LoopPcs) /\ nSignals' = 0 /\ ~loopError' =>
          /\ pc' \in LoopPcs
          /\ frames' = <<>>
          /\ nRestore' = 0
          /\ (AtLoopEnd /\ zone_i' = 1 => pc' = "sleep")]_vars

\* a complete iteration (zone 1 written) was followed by the sleep of the next
C18_Witness ==
    /\ pc = "read"
    /\ lastCmd.op = "setZoneSpeed"
    /\ lastCmd.zone = 1
    /\ lastCmd.ok
    /\ nSignals = 0
    /\ ~loopError
    /\ nRestore = 0

\* C19: a process that exits after set_fan_preset(FAN_PRESET_FULL) or a
\* set_zone_speed was issued has issued the restore after the last of them
\* (the restore is the last command issued); an exit without a restore
\* happens only when none of those writes was issued.
C19_ExitAfterWriteRestores ==
    pc = "exited" =>
        /\ (wrote => nRestore >= 1 /\ LastIsRestore /\ lastCmd.op = "setPreset"
                     /\ lastCmd.val = EXIT_PRESET)
        /\ (nRestore = 0 => ~wrote)

\* an exit after the override was forced and zones were written: the restore
\* was the last command issued
C19_Witness ==
    /\ pc = "exited"
    /\ wrote
    /\ forceFailed
    /\ writeFailed
    /\ nRestore = 1
    /\ LastIsRestore

---------------------------------------------------------------------------
(* Properties of the curve *)

\* target_fan_speed has returned for the argument temps[1]
EvalDone == pc = "curve_done"

\* the control points in the order the segments were built from
SortedPoints == SortCoords(curve_points)

\* a valid list: at least two points, ascending temperatures, speeds in 0..100
ValidCurve(coords) ==
    /\ Len(coords) >= 2
    /\ ~HasDuplicate(coords)
    /\ ~IsUnsorted(coords)
    /\ \A i \in 1..Len(coords) : coords[i][2] \in 0..100

\* C12: the result of target_fan_speed is in 0..100 for every temperature and
\* every list of control points, configured speeds outside 0..100 included.
C12_ResultInRange == EvalDone => target_speed \in 0..100

\* C13: for a valid list, at or below the lowest control point's temperature
\* the result is that point's speed; at or above the highest control point's
\* temperature it is 100.
C13_FloorAndCeiling ==
    EvalDone /\ ValidCurve(curve_points) =>
        /\ temps[1] <= SortedPoints[1][1] => target_speed = SortedPoints[1][2]
        /\ temps[1] >= SortedPoints[Len(SortedPoints)][1] => target_speed = 100

\* C16: for a valid list, at the temperature of an interior control point the
\* result, which comes from the segment ending there, and the value of the
\* segment starting there both equal that point's configured speed.
C16_ContinuousAtControlPoints ==
    EvalDone /\ ValidCurve(curve_points) =>
        \A i \in 2..(Len(SortedPoints) - 1) :
            temps[1] = SortedPoints[i][1] =>
                /\ target_speed = SortedPoints[i][2]
                /\ SegmentValue(temp_curve[i], temps[1]) = SortedPoints[i][2]

---------------------------------------------------------------------------
(* Properties of the startup with an edited TEMPERATURE_CURVE *)

\* labels of lines 205-216, up to the call of generate_curve_coefficients
BeforeCurvePcs == {"which", "getpreset", "fallback", "gencurve"}

\* C14 as stated: with duplicate temperatures or with points not written in
\* ascending order the program never reaches check_preset_full or main_loop and
\* never issues set_fan_preset(FULL) or set_zone_speed.
C14_MalformedRejected ==
    HasDuplicate(curve_points) \/ IsUnsorted(curve_points) =>
        /\ pc \in BeforeCurvePcs \cup {"exited"}
        /\ ~wrote

\* C14, amended: with duplicate temperatures the program ends at line 216 or
\* before: no handler is installed, no segment is stored, the try block is not
\* entered, nothing but get_fan_preset was issued, and the exit status is 1
\* unless a signal killed the process.
C14_DuplicatesEndStartup ==
    HasDuplicate(curve_points) =>
        /\ pc \in BeforeCurvePcs \cup {"exited"}
        /\ ~wrote
        /\ lastCmd.op \in {"none", "getPreset"}
        /\ handlers = {}
        /\ temp_curve = <<>>
        /\ nRestore = 0
        /\ (pc = "exited" => exitCode \in {1, 128 + SIGINT, 128 + SIGTERM})

\* the out-of-order list with two points at 40 degrees: the preset was queried
\* and stored, then line 216 raised and the interpreter exited with status 1
C14_Witness ==
    /\ curve_points = UnsortedDuplicateCurve
    /\ pc = "exited"
    /\ exitCode = 1
    /\ EXIT_PRESET = FAN_PRESET_STANDARD
    /\ lastCmd.op = "getPreset"
    /\ lastCmd.ok

====
